---------------------------- MODULE Spec2Model ----------------------------
(***************************************************************************)
(* Model of script.py, the interleaved synthetic dataset generator:        *)
(* generate_base_data (Initializer), run_interleaved_generation            *)
(* (Orchestrator), generate_interleaved_products_for_file (Partition       *)
(* Writer, one per worker task) and update_base_data_counts (Reconciler).  *)
(*                                                                         *)
(* The module-level configuration of script.py (lines 10-16: 4 parts of    *)
(* 2500000 products, 100 categories, 100 vendors) is held in variables     *)
(* that Init draws from bounded sets and that no action changes, so that   *)
(* every property is checked for each configuration within the bounds.     *)
(***************************************************************************)
EXTENDS Integers, Sequences, FiniteSets, TLC

(* ------------------------------ bounds -------------------------------- *)
MaxParts == 2
MaxPerFile == 2
MaxCategories == 2
MaxVendors == 2
\* cap on SPLIT_PARTS * (NUM_CATEGORIES + VENDOR_COUNT): the more partitions a
\* configuration has, the smaller its catalog
MaxWork == 6
MaxCatalog == 4     \* cap on NUM_CATEGORIES + VENDOR_COUNT
MaxIterations == 2  \* iterations of the `while True` loop of test_runner/app.py

(* The vocabulary of get_random_word, cut down to two of its seven words. *)
WORDS == {"Electronics", "Apparel"}

VARIABLES
    SPLIT_PARTS,        \* script.py:14
    PRODUCTS_PER_FILE,  \* script.py:15
    NUM_CATEGORIES,     \* script.py:10
    VENDOR_COUNT,       \* script.py:11
    pc,                 \* position of the coordinating process (__main__)
    categories_data,    \* list built / loaded by the coordinating process
    vendors_data,
    categoriesFile,     \* CATEGORIES_FILE on disk
    vendorsFile,        \* VENDORS_FILE on disk
    wst,                \* per partition: position of its worker task / future
    widx,               \* per partition: loop counter i of the writer
    artifact,           \* per partition: tokens written to products_part_i.json
    category_counts,    \* per partition: the writer's local tally
    vendor_counts,
    collected,          \* futures already yielded by as_completed
    results,            \* the list `results` of run_interleaved_generation
    total_category_counts,  \* the Reconciler's aggregators
    total_vendor_counts,
    log,                \* lines printed so far (as a set of messages)
    error,              \* the catalog I/O step whose exception ended the run, or "none"
    round,              \* 1 in a run of the script; 2 in a repeated run
    firstCategories,    \* catalog contents at the end of round 1
    firstVendors

\* test_runner/app.py, run_tests
VARIABLES
    rpc,                \* position of run_tests
    test_index,         \* the try block of the loop body that is next, 1..6
    iteration,          \* iterations of the loop completed
    TEST_ERRORS,        \* app.py:19, the counter per test_name label
    published,          \* test_name labels whose gauges have been set
    attempts,           \* per test: how many times its try block was entered
    raised              \* per test: how many times its try block raised

runner == <<rpc, test_index, iteration, TEST_ERRORS, published, attempts, raised>>
config == <<SPLIT_PARTS, PRODUCTS_PER_FILE, NUM_CATEGORIES, VENDOR_COUNT>>
catalog == <<categories_data, vendors_data, categoriesFile, vendorsFile>>
workers == <<wst, widx, artifact, category_counts, vendor_counts>>
totals == <<total_category_counts, total_vendor_counts>>
rerun == <<round, firstCategories, firstVendors>>
vars == <<config, pc, error, catalog, workers, collected, results, totals, log, rerun,
          runner>>

Parts == 1..SPLIT_PARTS
TOTAL_PRODUCTS == PRODUCTS_PER_FILE * SPLIT_PARTS

(* ------------------------- dict / defaultdict -------------------------- *)
EmptyDict == <<>>

\* d[k] on a defaultdict(int): 0 for a key never stored
Get(d, k) == IF k \in DOMAIN d THEN d[k] ELSE 0

\* d[k] += n on a defaultdict(int)
Add(d, k, n) == [x \in (DOMAIN d) \cup {k} |-> IF x = k THEN Get(d, k) + n ELSE d[x]]

(* ----------------------------- files ----------------------------------- *)
Absent == [state |-> "absent", data |-> <<>>]
Written(data) == [state |-> "ok", data |-> data]
\* open(path, 'w') truncates before json.dump writes: a failed write leaves
\* the old contents (open failed) or an incomplete file.
Truncated == [state |-> "incomplete", data |-> <<>>]


(* --------------------------- catalog entries --------------------------- *)
\* script.py:120-124; the label f"Category Label {i} - {word}" is kept as <<i, word>>
BaseCategory(i, word) == [id |-> i, label |-> <<i, word>>, products_count |-> 0]

\* script.py:128-132; full_name f"Vendor Company {i}" is kept as <<i>>
BaseVendor(i) == [id |-> i, full_name |-> <<i>>, products_count |-> 0]

\* script.py:163-169: entity["products_count"] = total[entity["_id"]]
SetCounts(data, total) ==
    [k \in DOMAIN data |-> [data[k] EXCEPT !.products_count = Get(total, data[k].id)]]

(* ----------------------- positions of __main__ ------------------------- *)
InitializerIO == {"init_write_categories", "init_write_vendors"}
ReconcilerIO == {"load_categories", "load_vendors", "write_categories", "write_vendors"}
Terminal == {"done", "crashed"}

(* ------------------------ positions of a task -------------------------- *)
Finished == {"returned", "none", "raised"}      \* the future is done

(* ------------------- the tests of test_runner/app.py ------------------- *)
\* the test_name of the gauges each try block of the loop sets, in the order of
\* the blocks (app.py:118, 148, 178, 203, 233, 255)
TESTS == <<"shard1_write", "shard2_read", "shard3_agg",
           "scatter_read", "scatter_agg", "scatter_write">>

\* the test_name each except clause increments (app.py:128, 155, 185, 210, 240, 268)
ERROR_LABELS == <<"shard1_write", "shard2_read", "shard3_agg",
                  "scatter_read", "scatter_agg", "scatter_write">>

TestNames == {TESTS[k] : k \in DOMAIN TESTS}

\* run_tests has not been called yet
RunnerFresh ==
    /\ rpc = "connect"
    /\ test_index = 1
    /\ iteration = 0
    /\ TEST_ERRORS = [t \in TestNames |-> 0]
    /\ published = {}
    /\ attempts = [t \in TestNames |-> 0]
    /\ raised = [t \in TestNames |-> 0]

(* ------------------------------- Init ---------------------------------- *)
Configs ==
    /\ SPLIT_PARTS \in 1..MaxParts
    /\ PRODUCTS_PER_FILE \in 0..MaxPerFile
    /\ NUM_CATEGORIES \in 1..MaxCategories
    /\ VENDOR_COUNT \in 1..MaxVendors
    /\ NUM_CATEGORIES + VENDOR_COUNT <= MaxCatalog
    /\ SPLIT_PARTS * (NUM_CATEGORIES + VENDOR_COUNT) <= MaxWork

Fresh ==
    /\ pc = "start"
    /\ error = "none"
    /\ categories_data = <<>>
    /\ vendors_data = <<>>
    /\ categoriesFile = Absent
    /\ vendorsFile = Absent
    /\ wst = [i \in Parts |-> "unsubmitted"]
    /\ widx = [i \in Parts |-> 0]
    /\ artifact = [i \in Parts |-> <<>>]
    /\ category_counts = [i \in Parts |-> EmptyDict]
    /\ vendor_counts = [i \in Parts |-> EmptyDict]
    /\ collected = {}
    /\ total_category_counts = EmptyDict
    /\ total_vendor_counts = EmptyDict
    /\ log = {}
    /\ round = 1
    /\ firstCategories = Absent
    /\ firstVendors = Absent
    /\ RunnerFresh

Init == Configs /\ Fresh /\ results = <<>>

(* ------------------- Initializer: generate_base_data ------------------- *)
\* script.py:119-132: both loops append to the lists passed in
BuildBaseData ==
    /\ pc = "start"
    /\ \E w \in [0..(NUM_CATEGORIES - 1) -> WORDS] :
         categories_data' = categories_data \o
             [k \in 1..NUM_CATEGORIES |-> BaseCategory(k - 1, w[k - 1])]
    /\ vendors_data' = vendors_data \o [k \in 1..VENDOR_COUNT |-> BaseVendor(k - 1)]
    /\ pc' = "init_write_categories"
    /\ UNCHANGED <<runner, config, error, categoriesFile, vendorsFile, workers, collected,
                   results, totals, log, rerun>>

\* script.py:135-136
WriteInitialCategories ==
    /\ pc = "init_write_categories"
    /\ categoriesFile' = Written(categories_data)
    /\ pc' = "init_write_vendors"
    /\ UNCHANGED <<runner, config, error, categories_data, vendors_data, vendorsFile, workers,
                   collected, results, totals, log, rerun>>

\* script.py:137-138
WriteInitialVendors ==
    /\ pc = "init_write_vendors"
    /\ vendorsFile' = Written(vendors_data)
    /\ pc' = "submit"
    /\ UNCHANGED <<runner, config, error, categories_data, vendors_data, categoriesFile, workers,
                   collected, results, totals, log, rerun>>

\* except Exception: pass -- the run goes on to the step after the failed one
Swallowed(p) ==
    CASE p = "init_write_categories" -> "init_write_vendors"
      [] p = "init_write_vendors" -> "submit"
      [] p = "load_categories" -> "load_vendors"
      [] p = "load_vendors" -> "write_categories"
      [] p = "write_categories" -> "write_vendors"
      [] OTHER -> "done"

\* No try/except surrounds the catalog I/O of generate_base_data and
\* update_base_data_counts, nor their calls in __main__: the exception ends the run.
Uncaught(p) == "crashed"

\* An open/json.dump/json.load of a catalog file raises.
CatalogIOError ==
    /\ pc \in InitializerIO \cup ReconcilerIO
    /\ error' = pc
    /\ pc' = Uncaught(pc)
    /\ categoriesFile' \in IF pc \in {"init_write_categories", "write_categories"}
                           THEN {categoriesFile, Truncated} ELSE {categoriesFile}
    /\ vendorsFile' \in IF pc \in {"init_write_vendors", "write_vendors"}
                        THEN {vendorsFile, Truncated} ELSE {vendorsFile}
    /\ UNCHANGED <<runner, config, categories_data, vendors_data, workers, collected, results,
                   totals, log, rerun>>

(* ------- Orchestrator: run_interleaved_generation, lines 187-191 ------- *)
\* current_product_id += PRODUCTS_PER_FILE - 1: neighbouring ranges share an id
NextStartOverlapping(current_product_id) == current_product_id + PRODUCTS_PER_FILE - 1

\* current_product_id += PRODUCTS_PER_FILE
NextStart(current_product_id) == current_product_id + PRODUCTS_PER_FILE

\* the list `tasks` after the loop: <<file_idx, start_id>> for file_idx = i..SPLIT_PARTS
RECURSIVE BuildTasks(_, _)
BuildTasks(i, current_product_id) ==
    IF i > SPLIT_PARTS THEN <<>>
    ELSE <<<<i, current_product_id>>>> \o BuildTasks(i + 1, NextStart(current_product_id))

tasks == BuildTasks(1, 0)

\* the start_product_id argument of the task submitted for file_part_index i
start_product_id(i) == tasks[i][2]

\* script.py:196-198: every task is submitted before the first result is awaited
Submit ==
    /\ pc = "submit"
    /\ wst' = [i \in Parts |-> "pending"]
    /\ pc' = "collect"
    /\ UNCHANGED <<runner, config, error, catalog, widx, artifact, category_counts,
                   vendor_counts, collected, results, totals, log, rerun>>

(* ------ Partition Writer: generate_interleaved_products_for_file ------- *)
OpenToken == [t |-> "["]
SepToken == [t |-> ","]
CloseToken == [t |-> "]"]
\* json.dumps(product): the fields the claims are about (script.py:56-64)
ProductToken(global_product_id, category_id, vendor_id) ==
    [t |-> "product", product_id |-> global_product_id,
     category_id |-> category_id, vendor_id |-> vendor_id]

\* if i >= 0: a separator before the first object too
SeparatorAlways(i) == i >= 0

\* script.py:93: the separator goes before every object except the first
NeedsSeparator(i) == i > 0

Msg(text, part) == [text |-> text, part |-> part]

\* A pool process takes the task: line 75 prints, lines 81-82 open the file and
\* start the array.  MAX_WORKERS = os.cpu_count() or 4 depends on the host: a
\* pending task may start at any time, which covers every pool size (a smaller
\* pool only forbids some of these schedules).
StartTask(i) ==
    /\ wst[i] = "pending"
    /\ wst' = [wst EXCEPT ![i] = "loop"]
    /\ artifact' = [artifact EXCEPT ![i] = <<OpenToken>>]
    /\ log' = log \cup {Msg("Generating", i)}
    /\ UNCHANGED <<runner, config, pc, error, catalog, widx, category_counts, vendor_counts,
                   collected, results, totals, rerun>>

\* script.py:84-96, one iteration of the loop
GenerateProduct(i) ==
    /\ wst[i] = "loop"
    /\ widx[i] < PRODUCTS_PER_FILE
    /\ \E category_id \in 0..(NUM_CATEGORIES - 1), vendor_id \in 0..(VENDOR_COUNT - 1) :
         LET global_product_id == start_product_id(i) + widx[i]
             sep == IF NeedsSeparator(widx[i]) THEN <<SepToken>> ELSE <<>>
         IN /\ vendor_counts' = [vendor_counts EXCEPT ![i] = Add(@, vendor_id, 1)]
            /\ category_counts' = [category_counts EXCEPT ![i] = Add(@, category_id, 1)]
            /\ artifact' = [artifact EXCEPT ![i] = @ \o sep \o
                               <<ProductToken(global_product_id, category_id, vendor_id)>>]
    /\ widx' = [widx EXCEPT ![i] = @ + 1]
    /\ UNCHANGED <<runner, config, pc, error, catalog, wst, collected, results, totals, log, rerun>>

\* script.py:98-112: the loop is over; close the array and the file, print, and
\* return the tally
FinishTask(i) ==
    /\ wst[i] = "loop"
    /\ widx[i] = PRODUCTS_PER_FILE
    /\ artifact' = [artifact EXCEPT ![i] = Append(@, CloseToken)]
    /\ wst' = [wst EXCEPT ![i] = "returned"]
    /\ log' = log \cup {Msg("Finished File", i)}
    /\ UNCHANGED <<runner, config, pc, error, catalog, widx, category_counts, vendor_counts,
                   collected, results, totals, rerun>>

\* the except clause returns the tally counted so far
AfterWriteErrorPartial == "returned"

\* script.py:100-102: the except clause prints and returns None
AfterWriteError == "none"

\* An open, write or close inside the try raises: the tokens written so far stay
\* in the file (a pending separator may have been written); the locals, the
\* partial tally among them, are gone when the function returns.
WriteError(i) ==
    /\ \/ /\ wst[i] = "pending"
          /\ UNCHANGED artifact
       \/ /\ wst[i] = "loop"
          /\ artifact' \in
               {[artifact EXCEPT ![i] = @ \o s] :
                  s \in IF widx[i] < PRODUCTS_PER_FILE /\ NeedsSeparator(widx[i])
                        THEN {<<>>, <<SepToken>>} ELSE {<<>>}}
    /\ wst' = [wst EXCEPT ![i] = AfterWriteError]
    /\ category_counts' = [category_counts EXCEPT ![i] = EmptyDict]
    /\ vendor_counts' = [vendor_counts EXCEPT ![i] = EmptyDict]
    /\ log' = log \cup {Msg("Generating", i), Msg("Error writing file", i)}
    /\ UNCHANGED <<runner, config, pc, error, catalog, widx, collected, results, totals, rerun>>

\* A statement outside the try raises (the print of line 75, or the print of line
\* 105 once the file is complete): the exception is stored in the future and no
\* tally is returned.
TaskRaises(i) ==
    /\ \/ /\ wst[i] = "pending"
          /\ UNCHANGED <<artifact, log>>
       \/ /\ wst[i] = "loop"
          /\ widx[i] = PRODUCTS_PER_FILE
          /\ artifact' = [artifact EXCEPT ![i] = Append(@, CloseToken)]
          /\ UNCHANGED log
    /\ wst' = [wst EXCEPT ![i] = "raised"]
    /\ category_counts' = [category_counts EXCEPT ![i] = EmptyDict]
    /\ vendor_counts' = [vendor_counts EXCEPT ![i] = EmptyDict]
    /\ UNCHANGED <<runner, config, pc, error, catalog, widx, collected, results, totals, rerun>>

(* ------- Orchestrator: run_interleaved_generation, lines 200-208 ------- *)
\* the dict returned at script.py:108-112
Tally(i) == [file_index |-> i, category_counts |-> category_counts[i],
             vendor_counts |-> vendor_counts[i]]

\* a future is taken as soon as it was submitted (a wait that does not wait)
FutureSubmitted(i) == wst[i] # "unsubmitted"

\* as_completed yields a future only when it is done
FutureDone(i) == wst[i] \in Finished

\* as_completed yields a finished future; future.result() returns or raises
Collect(i) ==
    /\ pc = "collect"
    /\ i \notin collected
    /\ FutureDone(i)
    /\ collected' = collected \cup {i}
    /\ results' = IF wst[i] = "returned" THEN Append(results, Tally(i)) ELSE results
    /\ log' = IF wst[i] = "raised" THEN log \cup {Msg("Error during file generation", 0)}
              ELSE log
    /\ UNCHANGED <<runner, config, pc, error, catalog, workers, totals, rerun>>

\* the loop over the futures ends at the first result
FirstCollected == collected # {}

\* as_completed(futures), with no timeout, is exhausted once every future was yielded
AllCollected == collected = Parts

(* ------------------ Reconciler: update_base_data_counts ---------------- *)
\* total[id] = count: the last tally read replaces what was added before
AccumulateOverwriting(total, id, count) ==
    [x \in (DOMAIN total) \cup {id} |-> IF x = id THEN count ELSE total[x]]

\* script.py:152 / 154: total[id] += count
Accumulate(total, id, count) == Add(total, id, count)

\* script.py:151-154: one inner loop over the items of a tally's dict
RECURSIVE MergeCounts(_, _)
MergeCounts(total, d) ==
    IF DOMAIN d = {} THEN total
    ELSE LET k == CHOOSE x \in DOMAIN d : TRUE
         IN MergeCounts(Accumulate(total, k, d[k]), [x \in (DOMAIN d) \ {k} |-> d[x]])

\* an aggregator kept from the call before (a module-level dict)
StaleAggregator == total_category_counts

\* script.py:145-146: the aggregators start empty on every call
NewAggregator == EmptyDict

\* the aggregation stops after the first result of the list
AggregateFirstOnly(total, rs, field) ==
    IF rs = <<>> THEN total ELSE MergeCounts(total, Head(rs)[field])

\* script.py:149-154, for one of the two dicts of every result, in list order
RECURSIVE AggregateAll(_, _, _)
AggregateAll(total, rs, field) ==
    IF rs = <<>> THEN total
    ELSE AggregateAll(MergeCounts(total, Head(rs)[field]), Tail(rs), field)

\* script.py:208 and 225-228: the with block is left, run_interleaved_generation
\* returns the list, and update_base_data_counts aggregates it (lines 145-154)
Aggregate ==
    /\ pc = "collect"
    /\ AllCollected
    /\ total_category_counts' = AggregateAll(NewAggregator, results, "category_counts")
    /\ total_vendor_counts' = AggregateAll(NewAggregator, results, "vendor_counts")
    /\ pc' = "load_categories"
    /\ UNCHANGED <<runner, config, error, catalog, workers, collected, results, log, rerun>>

\* script.py:157-158
LoadCategories ==
    /\ pc = "load_categories"
    /\ categoriesFile.state = "ok"
    /\ categories_data' = categoriesFile.data
    /\ pc' = "load_vendors"
    /\ UNCHANGED <<runner, config, error, vendors_data, categoriesFile, vendorsFile, workers,
                   collected, results, totals, log, rerun>>

\* script.py:159-169: load the vendors, then set every products_count
LoadVendors ==
    /\ pc = "load_vendors"
    /\ vendorsFile.state = "ok"
    /\ categories_data' = SetCounts(categories_data, total_category_counts)
    /\ vendors_data' = SetCounts(vendorsFile.data, total_vendor_counts)
    /\ pc' = "write_categories"
    /\ UNCHANGED <<runner, config, error, categoriesFile, vendorsFile, workers, collected,
                   results, totals, log, rerun>>

\* script.py:172-173
WriteCategories ==
    /\ pc = "write_categories"
    /\ categoriesFile' = Written(categories_data)
    /\ pc' = "write_vendors"
    /\ UNCHANGED <<runner, config, error, categories_data, vendors_data, vendorsFile, workers,
                   collected, results, totals, log, rerun>>

\* script.py:174-177, and the summary of lines 230-237
WriteVendors ==
    /\ pc = "write_vendors"
    /\ vendorsFile' = Written(vendors_data)
    /\ log' = log \cup {Msg("Base Data Counts Updated Successfully", 0),
                        Msg("Generation Complete", 0)}
    /\ pc' = "done"
    /\ UNCHANGED <<runner, config, error, categories_data, vendors_data, categoriesFile, workers,
                   collected, results, totals, rerun>>

(* --------------------------- the run of the script --------------------- *)
InitializerStep == BuildBaseData \/ WriteInitialCategories \/ WriteInitialVendors

ReconcilerStep ==
    \/ Aggregate
    \/ LoadCategories
    \/ LoadVendors
    \/ WriteCategories
    \/ WriteVendors

MainStep ==
    \/ InitializerStep
    \/ Submit
    \/ \E i \in Parts : Collect(i)
    \/ ReconcilerStep

TaskStep(i) ==
    \/ StartTask(i)
    \/ GenerateProduct(i)
    \/ FinishTask(i)

TaskFailure(i) == WriteError(i) \/ TaskRaises(i)

Next ==
    \/ MainStep
    \/ CatalogIOError
    \/ \E i \in Parts : TaskStep(i)
    \/ \E i \in Parts : TaskFailure(i)

Spec == Init /\ [][Next]_vars

(* ------------- fair scheduling of the coordinating process ------------- *)
\* The coordinating process keeps running, a worker may stall (script.py has no
\* timeout on as_completed or on future.result).
SpecMainFair == Init /\ [][Next]_vars /\ WF_vars(MainStep)

\* ... and every worker process keeps running its task too.
SpecFair ==
    /\ Init
    /\ [][Next]_vars
    /\ WF_vars(MainStep)
    /\ \A i \in 1..MaxParts : WF_vars(i \in Parts /\ TaskStep(i))

(* ---- the Initializer and the Reconciler run twice on fixed tallies ---- *)
RECURSIVE SumOf(_, _)
SumOf(f, S) == IF S = {} THEN 0
               ELSE LET x == CHOOSE y \in S : TRUE IN f[x] + SumOf(f, S \ {x})

\* the dicts a writer can return for n ids: only the ids drawn have a key, and
\* the counts add up to PRODUCTS_PER_FILE (script.py:89-90, 110-111)
CountDicts(n) ==
    {d \in UNION {[D -> 1..PRODUCTS_PER_FILE] : D \in SUBSET (0..(n - 1))} :
        SumOf(d, DOMAIN d) = PRODUCTS_PER_FILE}

TalliesOf(i) ==
    {[file_index |-> i, category_counts |-> c, vendor_counts |-> v] :
        c \in CountDicts(NUM_CATEGORIES), v \in CountDicts(VENDOR_COUNT)}

\* the lists run_interleaved_generation can return: the tallies of the
\* partitions that succeeded, each once, in any order
TallyLists ==
    UNION {{s \in [1..n -> UNION {TalliesOf(i) : i \in Parts}] :
              \A a, b \in 1..n : a # b => s[a].file_index # s[b].file_index} :
           n \in 0..SPLIT_PARTS}

InitRerun == Configs /\ Fresh /\ results \in TallyLists

\* update_base_data_counts is called on the fixed list (no generation phase)
UseFixedTallies ==
    /\ pc = "submit"
    /\ collected' = Parts
    /\ pc' = "collect"
    /\ UNCHANGED <<runner, config, error, catalog, workers, results, totals, log, rerun>>

\* the second run: generate_base_data on empty lists again, after the first
\* run's catalog files were set aside for comparison
RunAgain ==
    /\ pc = "done"
    /\ round = 1
    /\ round' = 2
    /\ firstCategories' = categoriesFile
    /\ firstVendors' = vendorsFile
    /\ categories_data' = <<>>
    /\ vendors_data' = <<>>
    /\ collected' = {}
    /\ pc' = "start"
    /\ UNCHANGED <<runner, config, error, categoriesFile, vendorsFile, workers, results,
                   totals, log>>

NextRerun ==
    \/ InitializerStep
    \/ UseFixedTallies
    \/ ReconcilerStep
    \/ RunAgain
    \/ CatalogIOError

SpecRerun == InitRerun /\ [][NextRerun]_vars

(* ======================= properties of the run ========================= *)
\* the product records of partition i's artifact, in file order
Products(i) == SelectSeq(artifact[i], LAMBDA tok : tok.t = "product")

Succeeded == {i \in Parts : wst[i] = "returned"}
Failed == {i \in Parts : wst[i] \in {"none", "raised"}}

(***************************************************************************)
(* C1.  The product_id values written across all partition artifacts are   *)
(* pairwise distinct; partition i writes the ids start_i, start_i + 1, ... *)
(* with start_i = (i-1) * PRODUCTS_PER_FILE, exactly PRODUCTS_PER_FILE of  *)
(* them once it has succeeded; and when every partition has succeeded the  *)
(* ids written cover exactly 0 .. TOTAL_PRODUCTS - 1 -- in every reachable *)
(* state, that is, under every scheduling of the workers.                  *)
(***************************************************************************)
C1_UniqueContiguousIds ==
    /\ \A i \in Parts :
         /\ \A k \in 1..Len(Products(i)) :
               Products(i)[k].product_id = (i - 1) * PRODUCTS_PER_FILE + (k - 1)
         /\ Len(Products(i)) <= PRODUCTS_PER_FILE
         /\ i \in Succeeded => Len(Products(i)) = PRODUCTS_PER_FILE
    /\ \A i, j \in Parts :
         \A k \in 1..Len(Products(i)), l \in 1..Len(Products(j)) :
            Products(i)[k].product_id = Products(j)[l].product_id => (i = j /\ k = l)
    /\ Succeeded = Parts =>
         UNION {{Products(i)[k].product_id : k \in 1..Len(Products(i))} : i \in Parts}
            = 0..(TOTAL_PRODUCTS - 1)

C1_Witness ==
    /\ pc = "done"
    /\ SPLIT_PARTS >= 2
    /\ PRODUCTS_PER_FILE >= 2
    /\ Succeeded = Parts

\* the number of records of succeeded partitions whose field `field` is id
Referencing(field, id) ==
    SumOf([i \in Succeeded |->
              Len(SelectSeq(Products(i), LAMBDA tok : tok[field] = id))], Succeeded)

\* the sum of products_count over the entries of a catalog file
CountSum(file) ==
    SumOf([k \in DOMAIN file.data |-> file.data[k].products_count], DOMAIN file.data)

RecordsProduced == SumOf([i \in Succeeded |-> Len(Products(i))], Succeeded)

(***************************************************************************)
(* C2.  Conservation of counts.  Once update_base_data_counts has          *)
(* finished, the products_count of all categories add up to the number of  *)
(* records produced by the partitions that succeeded, and so do those of   *)
(* all vendors; when no partition failed both sums are TOTAL_PRODUCTS; and *)
(* each entity's products_count is exactly the number of records of        *)
(* succeeded partitions that reference its id.                             *)
(***************************************************************************)
C2_Conservation ==
    pc = "done" =>
        /\ CountSum(categoriesFile) = RecordsProduced
        /\ CountSum(vendorsFile) = RecordsProduced
        /\ Succeeded = Parts => /\ CountSum(categoriesFile) = TOTAL_PRODUCTS
                                /\ CountSum(vendorsFile) = TOTAL_PRODUCTS
        /\ Len(categoriesFile.data) = NUM_CATEGORIES
        /\ Len(vendorsFile.data) = VENDOR_COUNT
        /\ \A k \in DOMAIN categoriesFile.data :
              /\ categoriesFile.data[k].id = k - 1
              /\ categoriesFile.data[k].products_count = Referencing("category_id", k - 1)
        /\ \A k \in DOMAIN vendorsFile.data :
              /\ vendorsFile.data[k].id = k - 1
              /\ vendorsFile.data[k].products_count = Referencing("vendor_id", k - 1)

\* two partitions succeeded, both wrote records of category 0, and a third id
\* of the catalog got a different count
C2_Witness ==
    /\ pc = "done"
    /\ Cardinality(Succeeded) >= 2
    /\ \A i \in Succeeded : 0 \in DOMAIN category_counts[i]
    /\ \E k \in DOMAIN categoriesFile.data :
          /\ categoriesFile.data[k].products_count > 0
          /\ categoriesFile.data[k].products_count # categoriesFile.data[1].products_count

(***************************************************************************)
(* C4.  Phase ordering on the base catalog.  While the Initializer is at   *)
(* work no partition task has been submitted; as soon as one is submitted  *)
(* both catalog files are complete with every products_count = 0, and they *)
(* stay so for as long as any task is pending or running; the Reconciler   *)
(* reads or writes a catalog file only when every submitted task has       *)
(* completed or failed.  So no catalog file is read or written while a     *)
(* partition task is still running.                                        *)
(***************************************************************************)
ZeroCounts(file) ==
    /\ file.state = "ok"
    /\ \A k \in DOMAIN file.data : file.data[k].products_count = 0

C4_PhaseOrdering ==
    /\ pc \in {"start"} \cup InitializerIO \/ error \in InitializerIO
          => \A i \in Parts : wst[i] = "unsubmitted"
    /\ (\E i \in Parts : wst[i] # "unsubmitted")
          => /\ categoriesFile.state # "absent"
             /\ vendorsFile.state # "absent"
             /\ Len(categoriesFile.data) = NUM_CATEGORIES \/ error = "write_categories"
             /\ Len(vendorsFile.data) = VENDOR_COUNT \/ error = "write_vendors"
    /\ (\E i \in Parts : wst[i] \in {"pending", "loop"})
          => /\ pc = "collect"
             /\ ZeroCounts(categoriesFile)
             /\ ZeroCounts(vendorsFile)
    /\ pc \in ReconcilerIO \cup {"done"} \/ error \in ReconcilerIO
          => \A i \in Parts : wst[i] \in Finished

\* the Reconciler is about to rewrite a catalog file after a generation in
\* which the tasks were running side by side
C4_Witness ==
    /\ pc = "write_categories"
    /\ SPLIT_PARTS >= 2
    /\ Succeeded = Parts
    /\ PRODUCTS_PER_FILE >= 1
    /\ categoriesFile.data # categories_data

(* ------------- reading an artifact back as one JSON array -------------- *)
Invalid == [ok |-> FALSE, items |-> <<>>]

\* elements := product ("," product)*  -- toks is what is left after a product
RECURSIVE ParseMore(_, _)
ParseMore(toks, items) ==
    IF toks = <<>> THEN [ok |-> TRUE, items |-> items]
    ELSE IF Len(toks) >= 2 /\ toks[1].t = "," /\ toks[2].t = "product"
         THEN ParseMore(SubSeq(toks, 3, Len(toks)), Append(items, toks[2]))
         ELSE Invalid

\* array := "[" [elements] "]", and nothing after it
ParseArray(toks) ==
    IF Len(toks) < 2 \/ toks[1].t # "[" \/ toks[Len(toks)].t # "]" THEN Invalid
    ELSE LET inner == SubSeq(toks, 2, Len(toks) - 1)
         IN IF inner = <<>> THEN [ok |-> TRUE, items |-> <<>>]
            ELSE IF inner[1].t = "product"
                 THEN ParseMore(Tail(inner), <<inner[1]>>)
                 ELSE Invalid

(***************************************************************************)
(* C5.  Streaming validity.  For every PRODUCTS_PER_FILE >= 0 the artifact *)
(* of a task that returned its tally is one valid array: it parses, as a   *)
(* whole, to exactly PRODUCTS_PER_FILE records in strictly increasing      *)
(* product_id order; a separator stands before every record except the     *)
(* first and nowhere else, between one opening and one closing bracket.    *)
(***************************************************************************)
C5_StreamingValidity ==
    \A i \in Succeeded :
        LET a == artifact[i]
            parsed == ParseArray(a)
        IN /\ parsed.ok
           /\ Len(parsed.items) = PRODUCTS_PER_FILE
           /\ parsed.items = Products(i)
           /\ \A k \in 1..(Len(parsed.items) - 1) :
                 parsed.items[k].product_id < parsed.items[k + 1].product_id
           /\ Len(a) = 2 + PRODUCTS_PER_FILE
                         + (IF PRODUCTS_PER_FILE = 0 THEN 0 ELSE PRODUCTS_PER_FILE - 1)
           /\ \A k \in 1..Len(a) :
                 /\ a[k].t = "[" <=> k = 1
                 /\ a[k].t = "]" <=> k = Len(a)
                 /\ a[k].t = "," <=> (1 < k /\ k < Len(a) /\ k % 2 = 1)

\* an artifact with separators in it
C5_Witness ==
    \E i \in Succeeded :
        /\ PRODUCTS_PER_FILE >= 2
        /\ Len(artifact[i]) = 2 * PRODUCTS_PER_FILE + 1

\* the artifact written for PRODUCTS_PER_FILE = 0
C5_EmptyArrayReached ==
    PRODUCTS_PER_FILE = 0 /\ \E i \in Succeeded : artifact[i] = <<OpenToken, CloseToken>>

(***************************************************************************)
(* C6.  Aggregation-gap reporting.  Whenever a partition failed, the run   *)
(* of the Reconciler leaves a message that names the partition as excluded *)
(* from the totals (every partition is either in the list given to the     *)
(* Reconciler or named by one of the Reconciler's messages).               *)
(***************************************************************************)
\* what update_base_data_counts prints (script.py:177 is its only print)
ReconcilerMessages == {m \in log : m.text = "Base Data Counts Updated Successfully"}

C6_GapReported ==
    pc = "done" =>
        \A i \in Parts \ Succeeded : \E m \in ReconcilerMessages : m.part = i

(***************************************************************************)
(* C7.  A base-catalog read or write failure is fatal.  After a failure in *)
(* generate_base_data no partition task was or is ever submitted and       *)
(* nothing is aggregated; after a failure in update_base_data_counts the   *)
(* 'Generation Complete' summary is never printed; in both cases the run   *)
(* has stopped with the error and stays stopped (the failure is not caught *)
(* and downgraded the way a partition failure is).                         *)
(***************************************************************************)
C7_CatalogFailureFatal ==
    /\ error # "none" => pc = "crashed"
    /\ pc = "crashed" => error \in InitializerIO \cup ReconcilerIO
    /\ error \in InitializerIO =>
          /\ \A i \in Parts : wst[i] = "unsubmitted" /\ artifact[i] = <<>>
          /\ results = <<>> /\ collected = {}
          /\ total_category_counts = EmptyDict /\ total_vendor_counts = EmptyDict
          /\ \A m \in log : m.text \notin {"Base Data Counts Updated Successfully",
                                           "Generation Complete"}
    /\ error \in ReconcilerIO =>
          /\ Msg("Generation Complete", 0) \notin log
          /\ Msg("Base Data Counts Updated Successfully", 0) \notin log
    /\ pc = "crashed" => ~ ENABLED Next

\* the Reconciler failed on the second catalog file it writes, after a
\* generation in which a partition succeeded
C7_Witness ==
    /\ error = "write_vendors"
    /\ pc = "crashed"
    /\ Succeeded # {}
    /\ categoriesFile.state = "ok"

\* generate_base_data failed
C7_InitializerFailureReached == error \in InitializerIO /\ pc = "crashed"

(***************************************************************************)
(* C9.  Completion-order independence.  In whatever order the tasks        *)
(* complete and are collected, the list handed to the Reconciler holds the *)
(* tally of each succeeded partition exactly once, and the final           *)
(* products_count of every category and vendor is the sum, over the        *)
(* succeeded partitions, of that partition's count for the id, an id       *)
(* absent from a tally counting as 0.                                      *)
(***************************************************************************)
TallySum(counts, id) == SumOf([i \in Succeeded |-> Get(counts[i], id)], Succeeded)

C9_OrderIndependence ==
    /\ \A a, b \in DOMAIN results : a # b => results[a].file_index # results[b].file_index
    /\ \A a \in DOMAIN results :
          /\ results[a].file_index \in Succeeded \cap collected
          /\ results[a] = Tally(results[a].file_index)
    /\ {results[a].file_index : a \in DOMAIN results} = Succeeded \cap collected
    /\ pc = "done" =>
          /\ {results[a].file_index : a \in DOMAIN results} = Succeeded
          /\ \A k \in DOMAIN categoriesFile.data :
                categoriesFile.data[k].products_count
                   = TallySum(category_counts, categoriesFile.data[k].id)
          /\ \A k \in DOMAIN vendorsFile.data :
                vendorsFile.data[k].products_count
                   = TallySum(vendor_counts, vendorsFile.data[k].id)

\* the tallies were collected against the order of submission, they differ,
\* and one of them lacks an id the other has
C9_Witness ==
    /\ pc = "done"
    /\ Len(results) >= 2
    /\ results[1].file_index > results[2].file_index
    /\ DOMAIN results[1].category_counts # DOMAIN results[2].category_counts
    /\ \E k \in DOMAIN categoriesFile.data : categoriesFile.data[k].products_count >= 2

(***************************************************************************)
(* C3.  Failure isolation.  A partition whose writer failed (a write error *)
(* inside the try, or an exception raised by the task) reports no tally,   *)
(* not even a partial one, and no entry of the list handed to the          *)
(* Reconciler comes from it; its failure changes nothing of its siblings,  *)
(* which, like the run itself, still go on to completion: from a state     *)
(* with a failed partition the run reaches the end of the Reconciler (or   *)
(* stops on a catalog error inside it) with every task finished; and the   *)
(* totals the Reconciler computes are the sums of the succeeded            *)
(* partitions' tallies alone.                                              *)
(***************************************************************************)
C3_NoTallyFromFailed ==
    \A i \in Parts :
        (i \in Failed \/ Msg("Error writing file", i) \in log) =>
            /\ i \in Failed
            /\ category_counts[i] = EmptyDict
            /\ vendor_counts[i] = EmptyDict
            /\ \A a \in DOMAIN results : results[a].file_index # i

C3_TotalsOfSucceeded ==
    pc \in ReconcilerIO \cup {"done"} =>
        /\ \A id \in 0..(NUM_CATEGORIES - 1) :
              Get(total_category_counts, id) = TallySum(category_counts, id)
        /\ \A id \in 0..(VENDOR_COUNT - 1) :
              Get(total_vendor_counts, id) = TallySum(vendor_counts, id)
        /\ DOMAIN total_category_counts \subseteq 0..(NUM_CATEGORIES - 1)
        /\ DOMAIN total_vendor_counts \subseteq 0..(VENDOR_COUNT - 1)

\* a step in which partition i fails leaves every sibling as it was
C3_SiblingsUntouched ==
    \A i \in Parts :
        (wst[i] \notin {"none", "raised"} /\ wst'[i] \in {"none", "raised"}) =>
            \A j \in Parts \ {i} :
                /\ wst'[j] = wst[j]
                /\ widx'[j] = widx[j]
                /\ artifact'[j] = artifact[j]
                /\ category_counts'[j] = category_counts[j]
                /\ vendor_counts'[j] = vendor_counts[j]

RunFinished ==
    /\ pc = "done" \/ (pc = "crashed" /\ error \in ReconcilerIO)
    /\ \A j \in Parts : wst[j] \in Finished

C3_FailureIsolation ==
    /\ []C3_NoTallyFromFailed
    /\ []C3_TotalsOfSucceeded
    /\ [][C3_SiblingsUntouched]_vars
    /\ (Failed # {}) ~> RunFinished

\* the run is over, one partition failed in the middle of its file and a
\* sibling delivered its tally
C3_Witness ==
    /\ pc = "done"
    /\ \E i \in Parts : wst[i] = "none" /\ Len(Products(i)) >= 1
    /\ \E j \in Succeeded : Len(Products(j)) >= 1

(***************************************************************************)
(* C10.  Run completion.  The Orchestrator waits for all SPLIT_PARTS       *)
(* submitted tasks, with no timeout: it leaves the collecting loop only    *)
(* when every task's future was collected, so the Reconciler is never      *)
(* executed and the run never completes while a task has not finished;     *)
(* and once every task has finished (successfully or by failing) the run   *)
(* goes on to execute the Reconciler and terminates.                       *)
(***************************************************************************)
ReconcilerExecuted == pc \in ReconcilerIO \cup {"done"} \/ error \in ReconcilerIO

C10_WaitsForAll ==
    /\ ReconcilerExecuted => \A i \in Parts : wst[i] \in Finished /\ i \in collected
    /\ (\E i \in Parts : wst[i] \in {"pending", "loop"}) => pc = "collect"
    /\ \A i \in collected : wst[i] \in Finished

AllTasksFinished == pc = "collect" /\ \A i \in Parts : wst[i] \in Finished

C10_RunCompletion ==
    /\ []C10_WaitsForAll
    /\ AllTasksFinished ~> (ReconcilerExecuted /\ pc \in Terminal)

\* the Orchestrator is still waiting although all tasks but one are done
C10_Witness ==
    /\ pc = "collect"
    /\ SPLIT_PARTS >= 2
    /\ \E i \in Parts :
          /\ wst[i] = "loop"
          /\ \A j \in Parts \ {i} : j \in collected

(* ------------------ properties of the repeated run --------------------- *)
\* the total of a fixed list of tallies for one id, an absent id counting as 0
ListSum(field, id) ==
    SumOf([a \in DOMAIN results |-> Get(results[a][field], id)], DOMAIN results)

SecondRunDone == round = 2 /\ pc = "done"

(***************************************************************************)
(* C8 as stated.  Running the Initializer and the Reconciler on a fixed    *)
(* list of tallies twice yields identical final catalog contents.          *)
(***************************************************************************)
C8_IdenticalContents ==
    SecondRunDone => categoriesFile = firstCategories /\ vendorsFile = firstVendors

(***************************************************************************)
(* C8, amended.  The two runs yield the same vendors file, and category    *)
(* files with the same entries in the same order but for the random word   *)
(* of each label: same ids, same index in the label, same products_count.  *)
(* Each products_count is the total computed from the tallies, not that    *)
(* total added to the value of the run before.                             *)
(***************************************************************************)
C8_IdempotentCounts ==
    /\ pc = "done" =>
          /\ \A k \in DOMAIN categoriesFile.data :
                categoriesFile.data[k].products_count
                   = ListSum("category_counts", categoriesFile.data[k].id)
          /\ \A k \in DOMAIN vendorsFile.data :
                vendorsFile.data[k].products_count
                   = ListSum("vendor_counts", vendorsFile.data[k].id)
    /\ SecondRunDone =>
          /\ vendorsFile = firstVendors
          /\ categoriesFile.state = firstCategories.state
          /\ Len(categoriesFile.data) = NUM_CATEGORIES
          /\ DOMAIN categoriesFile.data = DOMAIN firstCategories.data
          /\ \A k \in DOMAIN categoriesFile.data :
                LET now == categoriesFile.data[k]
                    before == firstCategories.data[k]
                IN /\ now.id = before.id
                   /\ now.label[1] = before.label[1]
                   /\ now.products_count = before.products_count

\* the second run is over and the catalog carries counts above zero from two
\* tallies that share a category
C8_Witness ==
    /\ SecondRunDone
    /\ Len(results) >= 2
    /\ \E id \in DOMAIN results[1].category_counts :
          /\ id \in DOMAIN results[2].category_counts
          /\ \E k \in DOMAIN categoriesFile.data :
                categoriesFile.data[k].id = id /\ categoriesFile.data[k].products_count >= 2

(* ======================= test_runner/app.py ========================== *)
(* run_tests: connect and count once, then loop for ever over six try     *)
(* blocks, each with its own `except Exception` clause.  What the database *)
(* answers is the environment's choice: every call either returns or       *)
(* raises an Exception.  The log lines and the sleeps change no state.     *)

\* Counter.labels(test_name=label).inc()
Inc(counter, label) == [counter EXCEPT ![label] = @ + 1]

\* the statement that runs after a try block that did not raise
AfterTry(k) == k + 1

\* an exception that ends the iteration, as one try around the loop body would
AfterExceptSkipping(k) == Len(TESTS) + 1

\* the statement that runs after the except clause of block k: the clause
\* only increments the counter and falls through to the next block
AfterExcept(k) == k + 1

\* the label the except clause of block k increments
ErrorLabel(k) == ERROR_LABELS[k]

\* app.py:93-97: get_db, count_documents and the log line all return
ConnectOk ==
    /\ rpc = "connect"
    /\ rpc' = "loop"
    /\ UNCHANGED <<test_index, iteration, TEST_ERRORS, published, attempts, raised>>
    /\ UNCHANGED <<config, pc, error, catalog, workers, collected, results, totals,
                   log, rerun>>

\* app.py:98-100: one of them raises: the traceback is logged, run_tests returns
ConnectFails ==
    /\ rpc = "connect"
    /\ rpc' = "returned"
    /\ UNCHANGED <<test_index, iteration, TEST_ERRORS, published, attempts, raised>>
    /\ UNCHANGED <<config, pc, error, catalog, workers, collected, results, totals,
                   log, rerun>>

\* block k runs to its end: its gauges are set
TestPasses(k) ==
    /\ rpc = "loop"
    /\ iteration < MaxIterations
    /\ test_index = k
    /\ attempts' = Inc(attempts, TESTS[k])
    /\ published' = published \cup {TESTS[k]}
    /\ test_index' = AfterTry(k)
    /\ UNCHANGED <<rpc, iteration, TEST_ERRORS, raised>>
    /\ UNCHANGED <<config, pc, error, catalog, workers, collected, results, totals,
                   log, rerun>>

\* block k raises, before its first gauge is set or after it (the reads of the
\* explain output at app.py:149-150, 204-205 follow the first set)
TestRaises(k) ==
    /\ rpc = "loop"
    /\ iteration < MaxIterations
    /\ test_index = k
    /\ attempts' = Inc(attempts, TESTS[k])
    /\ raised' = Inc(raised, TESTS[k])
    /\ \/ published' = published
       \/ published' = published \cup {TESTS[k]}
    /\ TEST_ERRORS' = Inc(TEST_ERRORS, ErrorLabel(k))
    /\ test_index' = AfterExcept(k)
    /\ UNCHANGED <<rpc, iteration>>
    /\ UNCHANGED <<config, pc, error, catalog, workers, collected, results, totals,
                   log, rerun>>

\* app.py:270-271: the last block is behind: log, sleep, next iteration
LoopComplete ==
    /\ rpc = "loop"
    /\ test_index = Len(TESTS) + 1
    /\ iteration' = iteration + 1
    /\ test_index' = 1
    /\ UNCHANGED <<rpc, TEST_ERRORS, published, attempts, raised>>
    /\ UNCHANGED <<config, pc, error, catalog, workers, collected, results, totals,
                   log, rerun>>

RunnerStep ==
    \/ ConnectOk
    \/ ConnectFails
    \/ \E k \in DOMAIN TESTS : TestPasses(k)
    \/ \E k \in DOMAIN TESTS : TestRaises(k)
    \/ LoopComplete

\* only the test runner runs; the generator is a separate script
InitRunner ==
    /\ SPLIT_PARTS = 1
    /\ PRODUCTS_PER_FILE = 0
    /\ NUM_CATEGORIES = 1
    /\ VENDOR_COUNT = 1
    /\ Fresh
    /\ results = <<>>

\* the loop is sequential and every database call returns or raises, so the
\* runner always takes its next step
SpecRunner == InitRunner /\ [][RunnerStep]_vars /\ WF_vars(RunnerStep)

(* ---------------- C11: isolation of the six test steps ---------------- *)
\* in every iteration the blocks before test_index have been entered once more
\* than the iterations completed, the others not yet: the six tests are
\* attempted in the order of TESTS, none skipped, none repeated
C11_FixedOrder ==
    rpc = "loop" =>
        \A k \in DOMAIN TESTS :
            attempts[TESTS[k]] = iteration + (IF k < test_index THEN 1 ELSE 0)

\* a test's counter counts the exceptions of that test and nothing else
C11_CountsOwnExceptions == \A t \in TestNames : TEST_ERRORS[t] = raised[t]

\* run_tests returns only from the failed connection, and then the loop was
\* never entered and no counter was incremented
C11_NoLoopWithoutConnection ==
    rpc = "returned" =>
        /\ iteration = 0
        /\ test_index = 1
        /\ \A t \in TestNames : attempts[t] = 0 /\ TEST_ERRORS[t] = 0

\* a step changes at most the counter of the test it attempts, by exactly one
C11_OneCounterByOne ==
    [][\A t \in TestNames :
          TEST_ERRORS'[t] # TEST_ERRORS[t] =>
              /\ rpc = "loop"
              /\ test_index \in DOMAIN TESTS
              /\ t = TESTS[test_index]
              /\ TEST_ERRORS'[t] = TEST_ERRORS[t] + 1
              /\ \A u \in TestNames \ {t} : TEST_ERRORS'[u] = TEST_ERRORS[u]]_vars

\* once connected, whatever raises, every iteration is completed
C11_IterationsComplete == (rpc = "loop") ~> (iteration = MaxIterations)

\* C11: once run_tests has connected, every iteration of its loop attempts the
\* six tests in the fixed order shard1_write, shard2_read, shard3_agg,
\* scatter_read, scatter_agg, scatter_write; an exception in one test increments
\* only that test's error counter, by exactly one, and never prevents the
\* remaining tests of the iteration or the following iterations from running;
\* if the initial connection or count fails, the loop is never entered and no
\* error counter is incremented.
C11_StepIsolation ==
    /\ [](C11_FixedOrder /\ C11_CountsOwnExceptions /\ C11_NoLoopWithoutConnection)
    /\ C11_OneCounterByOne
    /\ C11_IterationsComplete

\* shard2_read raised in the first iteration, the four tests after it and the
\* first two tests of the second iteration ran all the same
C11_Witness ==
    /\ rpc = "loop"
    /\ iteration = 1
    /\ test_index = 3
    /\ TEST_ERRORS = [t \in TestNames |-> IF t = "shard2_read" THEN 1 ELSE 0]
    /\ raised["shard2_read"] = 1
    /\ attempts["scatter_write"] = 1
    /\ attempts["shard2_read"] = 2
    /\ published = TestNames

\* the connection failed: run_tests has returned
C11_ConnectionFailureReached == rpc = "returned"

=============================================================================
